---------------------------- MODULE Spec2Model ----------------------------
(***************************************************************************)
(* A model of src/subquery.py: the bounded tool-use loop Tools.subquery    *)
(* and the helpers it is built from.                                       *)
(*                                                                         *)
(* Text (message content, argument text, identifiers) is a sequence of     *)
(* tokens.  A token is a character or an indivisible run of characters:    *)
(* " " is a whitespace character, ">" the closing angle bracket,           *)
(* "<function=" / "<FUNCTION=" the opening call marker in lower case and   *)
(* in any other letter case, "</function" / "</FUNCTION" the stem of the   *)
(* closing tag (the tag is the stem followed by ">"), and likewise for     *)
(* parameter tags.  Every other token is a run of ordinary characters      *)
(* holding no whitespace, no ">" and no part of a marker, so the regular   *)
(* expressions of the source read a token sequence exactly as they read    *)
(* the characters it stands for.                                           *)
(***************************************************************************)
EXTENDS Integers, Sequences, FiniteSets, TLC

\* ------------------------------------------------------------------ text

Whitespace == {" "}

GT == ">"

FunctionOpenLower == "<function="

\* re.IGNORECASE: the opening marker in any letter case
FunctionOpen == {"<function=", "<FUNCTION="}

FunctionCloseStem == {"</function", "</FUNCTION"}

ParameterOpen == {"<parameter=", "<PARAMETER="}

ParameterCloseStem == {"</parameter", "</PARAMETER"}

\* dict.get(key, default)
Get(d, k, default) == IF k \in DOMAIN d THEN d[k] ELSE default

Range(s) == {s[i] : i \in 1..Len(s)}

\* str.lstrip(): the text from its first non-whitespace token on
LStrip(s) ==
  LET keep == {i \in 1..Len(s) : s[i] \notin Whitespace}
  IN  IF keep = {} THEN <<>>
      ELSE SubSeq(s, CHOOSE i \in keep : \A j \in keep : i <= j, Len(s))

\* str.rstrip(): the text up to its last non-whitespace token
RStrip(s) ==
  LET keep == {i \in 1..Len(s) : s[i] \notin Whitespace}
  IN  IF keep = {} THEN <<>>
      ELSE SubSeq(s, 1, CHOOSE i \in keep : \A j \in keep : j <= i)

\* str.strip()
Strip(s) == LStrip(RStrip(s))

\* content.split("<function=", 1)[0]: the text before the first lower-case
\* opening marker (the whole text when there is none)
SplitBeforeMarker(s) ==
  LET at == {i \in 1..Len(s) : s[i] = FunctionOpenLower}
  IN  IF at = {} THEN s
      ELSE SubSeq(s, 1, (CHOOSE i \in at : \A j \in at : i <= j) - 1)

\* ----------------------------------------------- re.findall on a tag pair

\* The end of the greedy run [^>\s]+ that starts at position i (i - 1 when
\* the run is empty).
RECURSIVE NameEnd(_, _)
NameEnd(s, i) ==
  IF i <= Len(s) /\ s[i] # GT /\ s[i] \notin Whitespace
  THEN NameEnd(s, i + 1)
  ELSE i - 1

\* The first position k >= b holding a closing stem followed by ">" (0 when
\* there is none): the lazy (.*?) before the closing tag.
RECURSIVE CloseAt(_, _, _)
CloseAt(s, b, closeStems) ==
  IF b + 1 > Len(s) THEN 0
  ELSE IF s[b] \in closeStems /\ s[b + 1] = GT THEN b
  ELSE CloseAt(s, b + 1, closeStems)

\* The match of <tag=([^>\s]+)>(.*?)</tag> anchored at position i.
MatchAt(s, i, opens, closeStems) ==
  IF ~(i <= Len(s) /\ s[i] \in opens) THEN [ok |-> FALSE]
  ELSE LET e == NameEnd(s, i + 1)
       IN  IF e < i + 1 \/ e + 1 > Len(s) \/ s[e + 1] # GT THEN [ok |-> FALSE]
           ELSE LET k == CloseAt(s, e + 2, closeStems)
                IN  IF k = 0 THEN [ok |-> FALSE]
                    ELSE [ok |-> TRUE, start |-> i,
                          name |-> SubSeq(s, i + 1, e),
                          body |-> SubSeq(s, e + 2, k - 1),
                          end |-> k + 1]

\* re.findall: the non-overlapping matches, leftmost first, scanning from i.
RECURSIVE FindAllFrom(_, _, _, _)
FindAllFrom(s, i, opens, closeStems) ==
  IF i > Len(s) THEN <<>>
  ELSE LET m == MatchAt(s, i, opens, closeStems)
       IN  IF m.ok
           THEN <<m>> \o FindAllFrom(s, m.end + 1, opens, closeStems)
           ELSE FindAllFrom(s, i + 1, opens, closeStems)

FindAll(s, opens, closeStems) == FindAllFrom(s, 1, opens, closeStems)

\* ------------------------------------------------------------------ JSON

\* A Python dict with text keys is a sequence of <<key, value>> pairs with
\* distinct keys, in insertion order.
DictKeys(d) == {d[i][1] : i \in 1..Len(d)}

Quote == "\""

\* json.dumps of a text: the text between quotes (no token of the model
\* needs escaping)
JsonDumpsStr(s) == <<Quote>> \o s \o <<Quote>>

\* json.dumps(args, ensure_ascii=False) of a dict of text values:
\* {"k": "v", "k2": "v2"}
RECURSIVE JsonDumpsMembers(_)
JsonDumpsMembers(d) ==
  IF d = <<>> THEN <<>>
  ELSE JsonDumpsStr(d[1][1]) \o <<":", " ">> \o JsonDumpsStr(d[1][2])
       \o (IF Len(d) = 1 THEN <<>> ELSE <<",", " ">> \o JsonDumpsMembers(Tail(d)))

JsonDumpsDict(d) == <<"{">> \o JsonDumpsMembers(d) \o <<"}">>

JsonNumbers == {"7"}

JsonFail == [ok |-> FALSE]

\* dict semantics for a list of <<key, value>> pairs: a key stands where it
\* came first and holds the value that came last
LastOf(pairs, k) ==
  pairs[CHOOSE i \in 1..Len(pairs) :
          /\ pairs[i][1] = k
          /\ \A j \in (i + 1)..Len(pairs) : pairs[j][1] # k][2]

DictOf(pairs) ==
  LET firsts == SelectSeq([i \in 1..Len(pairs) |-> i],
                          LAMBDA i : \A j \in 1..(i - 1) : pairs[j][1] # pairs[i][1])
  IN  [n \in 1..Len(firsts) |->
         <<pairs[firsts[n]][1], LastOf(pairs, pairs[firsts[n]][1])>>]

\* json.loads as a scanner, one token at a time.  st is what the scanner
\* expects: "value" the value of the text, "open" a key or the closing
\* brace, "next" a key, "colon" the colon, "member" the value of a member,
\* "sep" a comma or the closing brace, "end" nothing more; "text", "key" and
\* "string" mean it is inside the text value, a key, a member's text.  The
\* values of members are texts and numbers.
RECURSIVE JsonScan(_, _, _, _, _, _)
JsonScan(s, i, st, key, cur, pairs) ==
  IF i > Len(s)
  THEN (IF st = "end" THEN [ok |-> TRUE, kind |-> "dict", dict |-> DictOf(pairs)]
        ELSE IF st = "end text" THEN [ok |-> TRUE, kind |-> "str", text |-> cur]
        ELSE IF st = "end number" THEN [ok |-> TRUE, kind |-> "num", text |-> cur]
        ELSE JsonFail)
  ELSE IF st \in {"text", "key", "string"}
  THEN (IF s[i] # Quote THEN JsonScan(s, i + 1, st, key, Append(cur, s[i]), pairs)
        ELSE IF st = "text" THEN JsonScan(s, i + 1, "end text", key, cur, pairs)
        ELSE IF st = "key" THEN JsonScan(s, i + 1, "colon", cur, <<>>, pairs)
        ELSE JsonScan(s, i + 1, "sep", <<>>, <<>>,
                      Append(pairs, <<key, [kind |-> "str", text |-> cur]>>)))
  ELSE IF s[i] \in Whitespace THEN JsonScan(s, i + 1, st, key, cur, pairs)
  ELSE IF st = "value"
  THEN (IF s[i] = Quote THEN JsonScan(s, i + 1, "text", key, <<>>, pairs)
        ELSE IF s[i] \in JsonNumbers
             THEN JsonScan(s, i + 1, "end number", key, <<s[i]>>, pairs)
        ELSE IF s[i] = "{" THEN JsonScan(s, i + 1, "open", key, cur, pairs)
        ELSE JsonFail)
  ELSE IF st \in {"open", "next"}
  THEN (IF s[i] = Quote THEN JsonScan(s, i + 1, "key", key, <<>>, pairs)
        ELSE IF s[i] = "}" /\ st = "open"
             THEN JsonScan(s, i + 1, "end", key, cur, pairs)
        ELSE JsonFail)
  ELSE IF st = "colon"
  THEN (IF s[i] = ":" THEN JsonScan(s, i + 1, "member", key, cur, pairs)
        ELSE JsonFail)
  ELSE IF st = "member"
  THEN (IF s[i] = Quote THEN JsonScan(s, i + 1, "string", key, <<>>, pairs)
        ELSE IF s[i] \in JsonNumbers
             THEN JsonScan(s, i + 1, "sep", <<>>, <<>>,
                           Append(pairs, <<key, [kind |-> "num", text |-> <<s[i]>>]>>))
        ELSE JsonFail)
  ELSE IF st = "sep"
  THEN (IF s[i] = "," THEN JsonScan(s, i + 1, "next", key, cur, pairs)
        ELSE IF s[i] = "}" THEN JsonScan(s, i + 1, "end", key, cur, pairs)
        ELSE JsonFail)
  ELSE JsonFail

\* json.loads(text)
JsonLoads(s) == JsonScan(s, 1, "value", <<>>, <<>>, <<>>)

\* ------------------------------------------------------- python objects

\* A candidate object of a list that may hold anything: a dict (a function
\* from its keys) or something else.
Dict(d) == [isdict |-> TRUE, d |-> d]

NotADict == [isdict |-> FALSE]

\* an index value: an int, a text, or a value of another type (None, a float)
IntIndex(n) == [t |-> "int", v |-> n]

StrIndex(s) == [t |-> "str", s |-> s]

OtherIndex == [t |-> "other"]

Digits == {"0", "1", "2", "3", "4", "5", "6", "7", "8", "9"}

DigitValue(c) ==
  CASE c = "0" -> 0 [] c = "1" -> 1 [] c = "2" -> 2 [] c = "3" -> 3
    [] c = "4" -> 4 [] c = "5" -> 5 [] c = "6" -> 6 [] c = "7" -> 7
    [] c = "8" -> 8 [] c = "9" -> 9

\* str.isdigit(): not empty, and every character a digit
IsDigit(s) == Len(s) > 0 /\ \A i \in 1..Len(s) : s[i] \in Digits

\* int(s) of a digit text
RECURSIVE IntOf(_)
IntOf(s) ==
  IF s = <<>> THEN 0
  ELSE 10 * IntOf(SubSeq(s, 1, Len(s) - 1)) + DigitValue(s[Len(s)])

\* d with d[k] = v
With(d, k, v) == [x \in DOMAIN d \cup {k} |-> IF x = k THEN v ELSE d[x]]

\* ------------------------------------------------------ _tail_messages

HistoryRoles == {"system", "user", "assistant"}

\* msgs[-n:]
SliceLast(msgs, n) ==
  LET len == Len(msgs)
      start == IF n > 0 THEN (IF n >= len THEN 0 ELSE len - n)
               ELSE (IF -n >= len THEN len ELSE -n)
  IN  SubSeq(msgs, start + 1, len)

TailKeeps(m) == m.isdict /\ Get(m.d, "role", "") \in HistoryRoles

RECURSIVE TailCopy(_)
TailCopy(msgs) ==
  IF msgs = <<>> THEN <<>>
  ELSE (IF TailKeeps(msgs[1])
        THEN <<[role |-> msgs[1].d["role"],
                content |-> Get(msgs[1].d, "content", <<>>)]>>
        ELSE <<>>) \o TailCopy(Tail(msgs))

_tail_messages(msgs, n) == TailCopy(SliceLast(msgs, n))

\* ------------------------------------------- _filter_kwargs_for_callable

\* A callable is known by its signature: the names of its parameters and
\* whether it takes **kwargs.
_filter_kwargs_for_callable(func, kw) ==
  IF func.var_keyword THEN kw
  ELSE SelectSeq(kw, LAMBDA p : p[1] \in func.params)

\* ------------------------------------------------ _normalize_tool_calls

\* the index always taken from the position, whatever the entry holds
NormalIndexPositional(tc, i) == IntIndex(i)

\* the index of the entry at position i (counted from 0)
NormalIndex(tc, i) ==
  LET idx == Get(tc, "index", IntIndex(i))
  IN  IF idx.t = "str"
      THEN (IF IsDigit(idx.s) THEN IntIndex(IntOf(idx.s)) ELSE IntIndex(i))
      ELSE IF idx.t # "int" THEN IntIndex(i)
      ELSE idx

RECURSIVE NormalizeFrom(_, _)
NormalizeFrom(tool_calls, i) ==
  IF i >= Len(tool_calls) THEN <<>>
  ELSE LET tc == tool_calls[i + 1]
       IN  (IF ~tc.isdict THEN <<>>
            ELSE <<Dict(With(tc.d, "index", NormalIndex(tc.d, i)))>>)
           \o NormalizeFrom(tool_calls, i + 1)

_normalize_tool_calls(tool_calls) == NormalizeFrom(tool_calls, 0)

\* ---------------------------------------------- _extract_text_tool_calls

\* args[k.strip()] = v.strip() for every parameter tag of a body, in order
ArgsOf(params) ==
  DictOf([i \in 1..Len(params) |-> <<Strip(params[i].name), Strip(params[i].body)>>])

\* the id f"call_text_{i}"
TextCallId(i) == <<"call_text_", i>>

TextCall(block, i) ==
  Dict([index |-> IntIndex(i),
        id |-> TextCallId(i),
        type |-> "function",
        function |->
          [name |-> Strip(block.name),
           arguments |->
             JsonDumpsDict(ArgsOf(FindAll(block.body, ParameterOpen,
                                          ParameterCloseStem)))]])

\* the blocks the function pattern finds in the content
FuncBlocks(content) == FindAll(content, FunctionOpen, FunctionCloseStem)

\* the fast path: no content, or no lower-case opening marker in it
NoMarker(content) == content = <<>> \/ FunctionOpenLower \notin Range(content)

_extract_text_tool_calls(content) ==
  IF NoMarker(content) THEN <<>>
  ELSE LET func_blocks == FuncBlocks(content)
       IN  [k \in 1..Len(func_blocks) |-> TextCall(func_blocks[k], k - 1)]

\* -------------------------------------------------------- Tools.subquery

VARIABLES
  inp,             \* the arguments of the call (never assigned after Init)
  max_rounds,      \* self.max_rounds
  pc,              \* where the coroutine is
  messages,        \* the conversation
  params,          \* the parameter map sent with every completion request
  tool_ids,        \* the tool identifiers passed forward
  tools_registry,  \* tool name -> entry
  round_num,       \* the loop variable of "for round_num in range(max_rounds)"
  resp,            \* the message of the last completion response, as received
  msg,             \* the same message after the loop worked on it
  tool_calls,      \* the batch of the round
  tc_i,            \* the position in the batch of the call dispatched next
  e,               \* the exception on its way to the handler (<<>>: none)
  returned,        \* the values returned to the caller (none or one)
  raised,          \* the exceptions raised to the caller (none or one)
  events,          \* what the notification sink received
  requests,        \* the completion requests issued, in order
  get_tools_args,  \* the identifier lists get_tools was called with
  invoked,         \* the tool invocations made, in order
  extracted,       \* whether the last response went through the text extractor
  batches,         \* the size of the batch found in each response, in order
  helper,          \* the call of a module-level helper on its own: name, arguments
  out              \* what that call returned (none or one value)

vars ==
  <<inp, max_rounds, pc, messages, params, tool_ids, tools_registry, round_num,
    resp, msg, tool_calls, tc_i, e, returned, raised, events, requests,
    get_tools_args, invoked, extracted, batches, helper, out>>

\* ------------------------------------------------------------ exceptions

NoException == <<>>

NoRequestError == <<"RuntimeError", "__request__ was not injected">>

NoUserError == <<"RuntimeError", "__user__ was not injected">>

NoModelError == <<"RuntimeError", "could not determine current model id">>

\* RuntimeError(f"[Subquery] exceeded max_rounds={self.max_rounds}")
RoundLimitError(n) == <<"RuntimeError", "exceeded max_rounds=", n>>

CompletionError == <<"CompletionError">>

ToolError == <<"ToolError">>

JSONDecodeError == <<"JSONDecodeError">>

TypeError == <<"TypeError">>

ValueError == <<"ValueError">>

KeyError == <<"KeyError">>

\* ---------------------------------------------------------------- events

StartStatus == [type |-> "status", description |-> "start", done |-> FALSE]

CompleteStatus ==
  [type |-> "status", description |-> "complete", done |-> TRUE, hidden |-> TRUE]

\* the status of a batch marked as the end of the run
ToolsStatusDone(names) ==
  [type |-> "status", description |-> "tools", names |-> names, done |-> TRUE]

ToolsStatus(names) ==
  [type |-> "status", description |-> "tools", names |-> names, done |-> FALSE]

ErrorEvent(exc) == [type |-> "chat:message:error", content |-> exc]

\* await __event_emitter__(event), when a sink was given
Emit(evs, event) == IF inp.__event_emitter__ THEN Append(evs, event) ELSE evs

\* ------------------------------------------------- lines 160-207: set-up

\* the model descriptor: not a dict or None, a dict with no id, with an
\* empty id, with an id
ModelDescriptors == {"none", "no id", "empty id", "ok"}

\* the preconditions without the check of the model id
PreconditionErrorNoIdCheck(a) ==
  IF ~a.__request__ THEN NoRequestError
  ELSE IF ~a.__user__ THEN NoUserError
  ELSE IF a.__model__ = "none" THEN NoModelError
  ELSE NoException

\* lines 160-167
PreconditionError(a) ==
  IF ~a.__request__ THEN NoRequestError
  ELSE IF ~a.__user__ THEN NoUserError
  ELSE IF a.__model__ # "ok" THEN NoModelError
  ELSE NoException

\* lines 173-178
InitialMessages(a) ==
  (IF a.include_recent_messages # 0 /\ a.__messages__ # <<>>
   THEN _tail_messages(a.__messages__, a.include_recent_messages)
   ELSE <<>>)
  \o <<[role |-> "user", content |-> a.prompt]>>

EmptyDict == [k \in {} |-> k]

\* lines 181-188: the inherited parameters, function_calling forced
InheritedParams(metadata) ==
  IF metadata.isdict /\ "params" \in DOMAIN metadata.d
     /\ metadata.d["params"].isdict
  THEN metadata.d["params"].d
  ELSE EmptyDict

\* the inherited parameters passed on as they are
LoopParamsInherited(metadata) == InheritedParams(metadata)

LoopParams(metadata) ==
  With(InheritedParams(metadata), "function_calling", "native")

\* a value that is or is not a list
List(items) == [islist |-> TRUE, items |-> items]

NotAList == [islist |-> FALSE]

\* an entry of an identifier list: a text or something else
Str(s) == [isstr |-> TRUE, s |-> s]

NotAStr == [isstr |-> FALSE]

\* lines 182-187
InheritedToolIds(metadata) ==
  IF metadata.isdict THEN Get(metadata.d, "tool_ids", NotAList) ELSE NotAList

\* str.lower(), token by token
LowerToken(t) ==
  CASE t = "Sub" -> "sub" [] t = "SUB" -> "sub"
    [] t = "Query" -> "query" [] t = "QUERY" -> "query"
    [] OTHER -> t

Lower(s) == [i \in 1..Len(s) |-> LowerToken(s[i])]

OwnToolId == <<"sub", "query">>

\* the own identifier compared as written, not in lower case
KeepsToolIdCaseSensitive(t) == t.isstr /\ t.s # OwnToolId

KeepsToolId(t) == t.isstr /\ Lower(t.s) # OwnToolId

\* lines 191-197
FilterToolIds(inherited) ==
  IF inherited.islist THEN List(SelectSeq(inherited.items, KeepsToolId))
  ELSE NotAList

\* "if tool_ids:"
Truthy(ids) == ids.islist /\ ids.items # <<>>

\* What get_tools answers for a list of identifiers: the functions of the
\* tools named, each with its callable's signature.
ToolFunctions(t) ==
  CASE t = Str(<<"util">>) ->
         (<<"echo">> :> [callable |-> [params |-> {<<"text">>, <<"__user__">>},
                                       var_keyword |-> FALSE]])
    [] t = Str(<<"math">>) ->
         (<<"calc">> :> [callable |-> [params |-> {}, var_keyword |-> TRUE]])
    [] OTHER -> EmptyDict

RECURSIVE get_tools(_)
get_tools(ids) ==
  IF ids = <<>> THEN EmptyDict
  ELSE ToolFunctions(ids[1]) @@ get_tools(Tail(ids))

\* ------------------------------------------ lines 224-238: call presence

\* line 227: the structured calls of a response message
StructuredCalls(m) == _normalize_tool_calls(Get(m, "tool_calls", <<>>))

\* line 231: msg.get("content") or ""
ContentOf(m) == Get(m, "content", <<>>)

\* lines 232-234: the calls found in the content
ParsedCalls(m) == _normalize_tool_calls(_extract_text_tool_calls(ContentOf(m)))

\* the text extractor preferred whenever the content holds calls
UsesExtractorOnText(m) == StructuredCalls(m) = <<>> \/ ParsedCalls(m) # <<>>

\* line 230: the text extractor runs when no structured call is left
UsesExtractor(m) == StructuredCalls(m) = <<>>

\* lines 227-236: the batch of the round
CallsOf(m) == IF UsesExtractor(m) THEN ParsedCalls(m) ELSE StructuredCalls(m)

\* line 238: the content kept once text calls were found
TruncatedContent(content) == RStrip(SplitBeforeMarker(content))

\* lines 235-238: the message after the decision
Decided(m) ==
  IF UsesExtractor(m) /\ ParsedCalls(m) # <<>>
  THEN With(m, "content", TruncatedContent(ContentOf(m)))
  ELSE m

\* the final answer returned as it came, not stripped
FinalTextUntrimmed(m) == ContentOf(m)

\* line 263: the final answer
FinalText(m) == Strip(ContentOf(m))

\* tc["function"]["name"] raises for a call with no function or no name
Malformed(tc) ==
  IF "function" \in DOMAIN tc.d
  THEN "name" \notin DOMAIN tc.d["function"]
  ELSE TRUE

\* line 267: the names are read when a sink is given and the batch holds
\* two calls or more
StatusReadsNames(calls) == inp.__event_emitter__ /\ Len(calls) >= 2

CallNames(calls) == [k \in 1..Len(calls) |-> calls[k].d["function"].name]

\* lines 304-310
AssistantMessage(m, calls) ==
  [role |-> "assistant", content |-> ContentOf(m), tool_calls |-> calls]

\* ------------------------------------------------ lines 313-366: dispatch

\* line 315: tc["function"].get("arguments", "") or ""
ArgsRaw(tc) == Get(tc.d["function"], "arguments", <<>>)

\* line 316
CallId(tc) == Get(tc.d, "id", <<>>)

\* lines 320-327
NotFoundMessage(tc_id, name) ==
  [role |-> "tool", tool_call_id |-> tc_id, name |-> name,
   content |-> <<"Tool '">> \o name \o <<"' not found">>]

\* argument text that does not parse taken for no arguments
ParseArgumentsLenient(args_raw) ==
  IF Strip(args_raw) = <<>> \/ ~JsonLoads(args_raw).ok
  THEN [ok |-> TRUE, kind |-> "dict", dict |-> <<>>]
  ELSE JsonLoads(args_raw)

\* line 331: json.loads(args_raw) if args_raw.strip() else {}
ParseArguments(args_raw) ==
  IF Strip(args_raw) = <<>> THEN [ok |-> TRUE, kind |-> "dict", dict |-> <<>>]
  ELSE JsonLoads(args_raw)

\* lines 331-333: the exception of parsing the arguments and copying them
\* into a dict; dict(args) of a number raises TypeError, of a text with
\* characters ValueError, and of the empty text it is the empty dict
\* (args ranges over the one parsed value, which is so computed once)
ArgumentsError(args_raw) ==
  CHOOSE exc \in {IF ~args.ok THEN JSONDecodeError
                  ELSE IF args.kind = "dict" THEN NoException
                  ELSE IF args.kind # "str" THEN TypeError
                  ELSE IF args.text # <<>> THEN ValueError
                  ELSE NoException : args \in {ParseArguments(args_raw)}} : TRUE

\* line 333: dict(args)
ArgsDict(a) == IF a.kind = "dict" THEN a.dict ELSE <<>>

ContextKeys ==
  <<"__user__", "user", "__metadata__", "__messages__", "__files__",
    "__model__", "__request__", "__event_emitter__">>

ContextValue == [kind |-> "context"]

\* lines 334-345: call_kwargs.update({...}); an argument of the call named
\* like a context key keeps its place and takes the context value, the
\* other context keys follow in their order
UpdateContext(kw) ==
  [i \in 1..Len(kw) |->
     IF kw[i][1] \in {<<ContextKeys[j]>> : j \in 1..Len(ContextKeys)}
     THEN <<kw[i][1], ContextValue>> ELSE kw[i]]
  \o SelectSeq([j \in 1..Len(ContextKeys) |-> <<<<ContextKeys[j]>>, ContextValue>>],
               LAMBDA p : p[1] \notin DictKeys(kw))

\* lines 333-349: the keyword arguments the callable is invoked with
CallKwargs(func, args_raw) ==
  CHOOSE filtered_kwargs \in
    {_filter_kwargs_for_callable(func, UpdateContext(ArgsDict(args))) :
       args \in {ParseArguments(args_raw)}} : TRUE

\* What a tool hands back: a text, a value that is no text, or an exception.
ToolOutcomes ==
  {[kind |-> "text", text |-> <<" ", "ok">>],
   [kind |-> "value", dict |-> << << <<"n">>, <<"1">> >> >>],
   [kind |-> "raises"]}

\* every result JSON-encoded, a text too
SerializeQuoted(result) ==
  IF result.kind = "text" THEN JsonDumpsStr(result.text)
  ELSE JsonDumpsDict(result.dict)

\* lines 360-364: the result as it is stored
Serialize(result) ==
  IF result.kind = "text" THEN result.text ELSE JsonDumpsDict(result.dict)

\* lines 355-366
ToolMessage(tc_id, name, result) ==
  [role |-> "tool", tool_call_id |-> tc_id, name |-> name,
   content |-> Serialize(result)]

\* ---------------------------------------------------------------- inputs

\* the largest self.max_rounds explored
MaxRounds == 2

Prompts == {<<"ask">>}

Histories ==
  {<<>>,
   <<Dict([role |-> "system", content |-> <<"persona">>, id |-> <<"m", 1>>]),
     Dict([role |-> "tool", content |-> <<"old">>]),
     NotADict,
     Dict([role |-> "assistant"])>>}

RecentCounts == {0, 3}

Metadatas ==
  {NotADict,
   Dict([params |-> NotADict]),
   Dict([tool_ids |-> List(<<Str(<<"sub", "query">>), Str(<<"Sub", "Query">>)>>)]),
   Dict([params |-> Dict([function_calling |-> "default", temperature |-> "0.2"]),
         tool_ids |-> List(<<Str(<<"util">>), Str(<<"SUB", "QUERY">>), NotAStr,
                             Str(<<"math">>)>>)])}

Inputs ==
  [prompt : Prompts,
   include_recent_messages : RecentCounts,
   __user__ : BOOLEAN,
   __metadata__ : Metadatas,
   __messages__ : Histories,
   __model__ : ModelDescriptors,
   __request__ : BOOLEAN,
   __event_emitter__ : BOOLEAN]

\* a structured call as a completion service sends it
Call(id, name, arguments) ==
  Dict([id |-> id, type |-> "function",
        function |-> [name |-> name, arguments |-> arguments]])

TextEcho ==
  <<"<function=", "echo", ">", "<parameter=", "text", ">", " ", "hi", " ",
    "</parameter", ">", "</function", ">">>

TextNope == <<"<function=", "nope", ">", "</function", ">">>

UpperEcho == <<"<FUNCTION=", "echo", ">", "</FUNCTION", ">">>

\* The messages a completion may answer with.
Responses ==
  { \* plain answers
    [content |-> <<" ", "done", " ">>],
    EmptyDict,
    [content |-> <<"see", "<function=", "echo", ">">>, tool_calls |-> <<>>],
    [content |-> UpperEcho],
    \* structured calls
    [content |-> <<"note", " ">> \o TextNope,
     tool_calls |-> <<Call(<<"c", 1>>, <<"echo">>,
                           <<"{", Quote, "text", Quote, ":", Quote, "hi", Quote, "}">>)>>],
    [tool_calls |->
       <<Dict([index |-> StrIndex(<<"5">>), id |-> <<"c", 2>>,
               function |-> [name |-> <<"nope">>]]),
         Dict([function |-> [name |-> <<"calc">>, arguments |-> <<" ">>]])>>],
    [content |-> <<>>,
     tool_calls |-> <<Call(<<"c", 3>>, <<"echo">>, <<"{", "oops">>)>>],
    [tool_calls |-> <<Call(<<"c", 4>>, <<"calc">>, <<"7">>)>>],
    [tool_calls |-> <<Call(<<"c", 5>>, <<"nope">>, <<>>),
                      Dict([id |-> <<"c", 6>>])>>],
    [content |-> TextEcho, tool_calls |-> <<NotADict>>],
    \* calls written as text
    [content |-> <<"first", " ">> \o TextEcho \o <<" ">> \o TextNope],
    [content |-> UpperEcho \o <<" ">> \o TextNope] }

\* no helper is called on its own during a run of Tools.subquery
NoHelper == [func |-> "none"]

\* ---------------------------------------------------------------- actions

Init ==
  /\ inp \in Inputs
  /\ max_rounds \in 0..MaxRounds
  /\ pc = "start"
  /\ messages = <<>>
  /\ params = EmptyDict
  /\ tool_ids = NotAList
  /\ tools_registry = EmptyDict
  /\ round_num = 0
  /\ resp = EmptyDict
  /\ msg = EmptyDict
  /\ tool_calls = <<>>
  /\ tc_i = 1
  /\ e = NoException
  /\ returned = <<>>
  /\ raised = <<>>
  /\ events = <<>>
  /\ requests = <<>>
  /\ get_tools_args = <<>>
  /\ invoked = <<>>
  /\ extracted = FALSE
  /\ batches = <<>>
  /\ helper = NoHelper
  /\ out = <<>>

\* lines 138-197: the start notification, the preconditions, the initial
\* conversation, the parameters and the identifiers passed forward
Start ==
  /\ pc = "start"
  /\ events' = Emit(events, StartStatus)
  /\ IF PreconditionError(inp) # NoException
     THEN /\ e' = PreconditionError(inp)
          /\ pc' = "except"
          /\ UNCHANGED <<messages, params, tool_ids>>
     ELSE /\ messages' = InitialMessages(inp)
          /\ params' = LoopParams(inp.__metadata__)
          /\ tool_ids' = FilterToolIds(InheritedToolIds(inp.__metadata__))
          /\ pc' = IF Truthy(tool_ids') THEN "get_tools" ELSE "loop"
          /\ e' = e
  /\ UNCHANGED <<helper, out, inp, max_rounds, tools_registry, round_num, resp, msg,
                 tool_calls, tc_i, returned, raised, requests, get_tools_args,
                 invoked, extracted,
                 batches>>

\* lines 200-207
GetTools ==
  /\ pc = "get_tools"
  /\ tools_registry' = get_tools(tool_ids.items)
  /\ get_tools_args' = Append(get_tools_args, tool_ids.items)
  /\ pc' = "loop"
  /\ UNCHANGED <<helper, out, inp, max_rounds, messages, params, tool_ids, round_num, resp,
                 msg, tool_calls, tc_i, e, returned, raised, events, requests,
                 invoked, extracted,
                 batches>>

\* the loop with its bound off by one: range(max_rounds + 1)
RoundLeftInclusive == round_num <= max_rounds

\* the loop with no bound: while True
RoundLeftAlways == TRUE

\* line 209: the loop goes on while there is a round left
RoundLeft == round_num < max_rounds

\* lines 211-222: the request sent to the completion service
Request ==
  LET base == [model |-> inp.__model__, messages |-> messages,
               stream |-> FALSE, params |-> params]
  IN  IF Truthy(tool_ids) THEN With(base, "tool_ids", tool_ids.items) ELSE base

\* lines 211-222: the completion service fails
ChatCompletionRaises ==
  /\ pc = "loop"
  /\ RoundLeft
  /\ requests' = Append(requests, Request)
  /\ e' = CompletionError
  /\ pc' = "except"
  /\ UNCHANGED <<helper, out, inp, max_rounds, messages, params, tool_ids, tools_registry,
                 round_num, resp, msg, tool_calls, tc_i, returned, raised,
                 events, get_tools_args, invoked, extracted,
                 batches>>

\* lines 211-310: the completion service answers; the answer is searched
\* for calls and either ends the run or opens the dispatch of its batch
ChatCompletionReturns ==
  /\ pc = "loop"
  /\ RoundLeft
  /\ requests' = Append(requests, Request)
  /\ \E r \in Responses :
       /\ resp' = r
       /\ msg' = Decided(r)
       /\ tool_calls' = CallsOf(r)
       /\ extracted' = UsesExtractor(r)
       /\ batches' = Append(batches, Len(tool_calls'))
       /\ IF tool_calls' = <<>>
          THEN /\ events' = Emit(events, CompleteStatus)
               /\ returned' = <<FinalText(msg')>>
               /\ pc' = "returned"
               /\ UNCHANGED <<messages, e>>
          ELSE IF StatusReadsNames(tool_calls')
                  /\ \E k \in 1..Len(tool_calls') : Malformed(tool_calls'[k])
          THEN /\ e' = KeyError
               /\ pc' = "except"
               /\ UNCHANGED <<messages, events, returned>>
          ELSE /\ events' = IF StatusReadsNames(tool_calls')
                            THEN Emit(events, ToolsStatus(CallNames(tool_calls')))
                            ELSE events
               /\ messages' = Append(messages, AssistantMessage(msg', tool_calls'))
               /\ pc' = "dispatch"
               /\ UNCHANGED <<e, returned>>
  /\ tc_i' = 1
  /\ UNCHANGED <<helper, out, inp, max_rounds, params, tool_ids, tools_registry, round_num,
                 raised, get_tools_args, invoked>>

\* the call the for loop of line 313 is at
tc == tool_calls[tc_i]

\* line 314
name == tc.d["function"].name

\* line 318 and 319: tools_registry.get(name) found an entry
Found == name \in DOMAIN tools_registry

\* the round left after its first call, the rest of the batch not dispatched
NextCallSkipsRest ==
  /\ tc_i' = 1
  /\ pc' = "loop"
  /\ round_num' = round_num + 1

\* line 313: the next call of the batch, or the next round when the batch
\* is done
NextCall ==
  IF tc_i < Len(tool_calls)
  THEN /\ tc_i' = tc_i + 1
       /\ UNCHANGED <<pc, round_num>>
  ELSE /\ tc_i' = 1
       /\ pc' = "loop"
       /\ round_num' = round_num + 1

\* line 314: a call with no function
DispatchMalformed ==
  /\ pc = "dispatch"
  /\ Malformed(tc)
  /\ e' = KeyError
  /\ pc' = "except"
  /\ UNCHANGED <<helper, out, inp, max_rounds, messages, params, tool_ids, tools_registry,
                 round_num, resp, msg, tool_calls, tc_i, returned, raised,
                 events, requests, get_tools_args, invoked, extracted,
                 batches>>

\* an unknown tool treated as fatal
DispatchNotFoundRaises ==
  /\ pc = "dispatch"
  /\ ~Malformed(tc)
  /\ ~Found
  /\ e' = KeyError
  /\ pc' = "except"
  /\ UNCHANGED <<helper, out, inp, max_rounds, messages, params, tool_ids, tools_registry,
                 round_num, resp, msg, tool_calls, tc_i, returned, raised,
                 events, requests, get_tools_args, invoked, extracted,
                 batches>>

\* lines 318-328: the name is not in the registry
DispatchNotFound ==
  /\ pc = "dispatch"
  /\ ~Malformed(tc)
  /\ ~Found
  /\ messages' = Append(messages, NotFoundMessage(CallId(tc), name))
  /\ NextCall
  /\ UNCHANGED <<helper, out, inp, max_rounds, params, tool_ids, tools_registry, resp, msg,
                 tool_calls, e, returned, raised, events, requests,
                 get_tools_args, invoked, extracted,
                 batches>>

\* lines 330-333: the argument text is no JSON object
DispatchBadArguments ==
  /\ pc = "dispatch"
  /\ ~Malformed(tc)
  /\ Found
  /\ ArgumentsError(ArgsRaw(tc)) # NoException
  /\ e' = ArgumentsError(ArgsRaw(tc))
  /\ pc' = "except"
  /\ UNCHANGED <<helper, out, inp, max_rounds, messages, params, tool_ids, tools_registry,
                 round_num, resp, msg, tool_calls, tc_i, returned, raised,
                 events, requests, get_tools_args, invoked, extracted,
                 batches>>

\* the record of an invocation: lines 347-351
Invocation ==
  [name |-> name, tool_call_id |-> CallId(tc),
   kwargs |-> CallKwargs(tools_registry[name].callable, ArgsRaw(tc))]

CanInvoke ==
  /\ pc = "dispatch"
  /\ ~Malformed(tc)
  /\ Found
  /\ ArgumentsError(ArgsRaw(tc)) = NoException

\* lines 351-353: the tool is invoked and fails
ToolRaises ==
  /\ CanInvoke
  /\ invoked' = Append(invoked, Invocation)
  /\ e' = ToolError
  /\ pc' = "except"
  /\ UNCHANGED <<helper, out, inp, max_rounds, messages, params, tool_ids, tools_registry,
                 round_num, resp, msg, tool_calls, tc_i, returned, raised,
                 events, requests, get_tools_args, extracted,
                 batches>>

\* the result of the tool written over the last message of the conversation
ToolReturnsInPlace ==
  /\ CanInvoke
  /\ invoked' = Append(invoked, Invocation)
  /\ \E result \in {o \in ToolOutcomes : o.kind # "raises"} :
       messages' = [messages EXCEPT ![Len(messages)] =
                      ToolMessage(CallId(tc), name, result)]
  /\ NextCall
  /\ UNCHANGED <<helper, out, inp, max_rounds, params, tool_ids, tools_registry,
                 resp, msg, tool_calls, e, returned, raised, events, requests,
                 get_tools_args, extracted, batches>>

\* lines 351-366: the tool is invoked and its result is appended
ToolReturns ==
  /\ CanInvoke
  /\ invoked' = Append(invoked, Invocation)
  /\ \E result \in {o \in ToolOutcomes : o.kind # "raises"} :
       messages' = Append(messages, ToolMessage(CallId(tc), name, result))
  /\ NextCall
  /\ UNCHANGED <<helper, out, inp, max_rounds, params, tool_ids, tools_registry, resp, msg,
                 tool_calls, e, returned, raised, events, requests,
                 get_tools_args, extracted,
                 batches>>

\* line 368: the loop ran out of rounds
RoundLimit ==
  /\ pc = "loop"
  /\ ~RoundLeft
  /\ e' = RoundLimitError(max_rounds)
  /\ pc' = "except"
  /\ UNCHANGED <<helper, out, inp, max_rounds, messages, params, tool_ids, tools_registry,
                 round_num, resp, msg, tool_calls, tc_i, returned, raised,
                 events, requests, get_tools_args, invoked, extracted,
                 batches>>

\* the handler reporting the exception and returning instead of raising
ExceptSwallows ==
  /\ pc = "except"
  /\ events' = Emit(events, ErrorEvent(e))
  /\ returned' = << <<>> >>
  /\ pc' = "returned"
  /\ UNCHANGED <<helper, out, inp, max_rounds, messages, params, tool_ids, tools_registry,
                 round_num, resp, msg, tool_calls, tc_i, e, raised, requests,
                 get_tools_args, invoked, extracted, batches>>

\* lines 370-382: the handler reports the exception and raises it again
Except ==
  /\ pc = "except"
  /\ events' = Emit(events, ErrorEvent(e))
  /\ raised' = <<e>>
  /\ pc' = "raised"
  /\ UNCHANGED <<helper, out, inp, max_rounds, messages, params, tool_ids, tools_registry,
                 round_num, resp, msg, tool_calls, tc_i, e, returned, requests,
                 get_tools_args, invoked, extracted,
                 batches>>

Next ==
  \/ Start
  \/ GetTools
  \/ ChatCompletionRaises
  \/ ChatCompletionReturns
  \/ DispatchMalformed
  \/ DispatchNotFound
  \/ DispatchBadArguments
  \/ ToolRaises
  \/ ToolReturns
  \/ RoundLimit
  \/ Except

Spec == Init /\ [][Next]_vars

\* The completion service, the tools, the resolver and the sink all answer,
\* and the coroutine runs whenever it can.
FairSpec == Spec /\ WF_vars(Next)

\* ------------------------------------------------- the helpers on their own

\* the longest history, call list and text (in fragments) a helper is given
MaxLen == 3

\* the sequences over S of length n at most
SeqsUpTo(S, n) == UNION {[1..k -> S] : k \in 0..n}

\* What a prior history may hold: messages of every role, with and without
\* content, with fields of their own, an entry with no role, and an entry
\* that is no dict.
HistoryEntries ==
  {Dict([role |-> "system", content |-> <<"persona">>, id |-> <<"m", 1>>]),
   Dict([role |-> "user", content |-> <<"q">>]),
   Dict([role |-> "assistant"]),
   Dict([role |-> "tool", content |-> <<"old">>, tool_call_id |-> <<"c", 0>>]),
   Dict([content |-> <<"x">>]),
   NotADict}

\* the counts n asked for, negative ones and zero among them
TailCounts == -1..(MaxLen + 1)

\* What a candidate call list may hold: calls with no index, with an int,
\* a text of digits, a text that is no number, the empty text, a value of
\* another type as index, and an entry that is no dict.
CallEntries ==
  {Dict([id |-> <<"a">>]),
   Dict([index |-> IntIndex(2), id |-> <<"b">>]),
   Dict([index |-> IntIndex(-1)]),
   Dict([index |-> StrIndex(<<"1", "2">>)]),
   Dict([index |-> StrIndex(<<"x">>)]),
   Dict([index |-> StrIndex(<<>>)]),
   Dict([index |-> OtherIndex, id |-> <<"c">>]),
   NotADict}

\* a block with tags in mixed letter case and a parameter
MixedBlock ==
  <<"<function=", "f", ">", " ", "<PARAMETER=", "k", ">", "v", " ",
    "</parameter", ">", "</FUNCTION", ">">>

\* The pieces a content is made of: words, whitespace, blocks in lower, upper
\* and mixed case, with and without parameters, and tags with no partner.
Fragments ==
  {<<"a">>, <<" ">>, TextNope, UpperEcho, TextEcho, MixedBlock,
   <<"<function=">>, <<"</function", ">">>}

RECURSIVE Flatten(_)
Flatten(parts) ==
  IF parts = <<>> THEN <<>> ELSE parts[1] \o Flatten(Tail(parts))

Contents == {Flatten(parts) : parts \in SeqsUpTo(Fragments, MaxLen)}

HelperCalls ==
  {[func |-> "_tail_messages", msgs |-> m, n |-> k] :
     m \in SeqsUpTo(HistoryEntries, MaxLen), k \in TailCounts}
  \cup {[func |-> "_normalize_tool_calls", tool_calls |-> c, times |-> 0] :
          c \in SeqsUpTo(CallEntries, MaxLen)}
  \cup {[func |-> "_extract_text_tool_calls", content |-> c] : c \in Contents}

\* Tools.subquery is not running
HelperInit ==
  /\ helper \in HelperCalls
  /\ out = <<>>
  /\ inp = CHOOSE a \in Inputs : TRUE
  /\ max_rounds = 0
  /\ pc = "helper"
  /\ messages = <<>>
  /\ params = EmptyDict
  /\ tool_ids = NotAList
  /\ tools_registry = EmptyDict
  /\ round_num = 0
  /\ resp = EmptyDict
  /\ msg = EmptyDict
  /\ tool_calls = <<>>
  /\ tc_i = 1
  /\ e = NoException
  /\ returned = <<>>
  /\ raised = <<>>
  /\ events = <<>>
  /\ requests = <<>>
  /\ get_tools_args = <<>>
  /\ invoked = <<>>
  /\ extracted = FALSE
  /\ batches = <<>>

\* the variables of Tools.subquery
run ==
  <<inp, max_rounds, pc, messages, params, tool_ids, tools_registry, round_num,
    resp, msg, tool_calls, tc_i, e, returned, raised, events, requests,
    get_tools_args, invoked, extracted, batches>>

\* lines 28-33
TailMessages ==
  /\ helper.func = "_tail_messages"
  /\ out = <<>>
  /\ out' = <<_tail_messages(helper.msgs, helper.n)>>
  /\ UNCHANGED <<helper, run>>

\* lines 45-60
NormalizeToolCalls ==
  /\ helper.func = "_normalize_tool_calls"
  /\ helper.times = 0
  /\ out' = <<_normalize_tool_calls(helper.tool_calls)>>
  /\ helper' = [helper EXCEPT !.times = 1]
  /\ UNCHANGED run

\* lines 45-60, called with the list it returned
NormalizeAgain ==
  /\ helper.func = "_normalize_tool_calls"
  /\ helper.times = 1
  /\ out' = <<_normalize_tool_calls(out[1])>>
  /\ helper' = [helper EXCEPT !.times = 2]
  /\ UNCHANGED run

\* lines 63-96
ExtractTextToolCalls ==
  /\ helper.func = "_extract_text_tool_calls"
  /\ out = <<>>
  /\ out' = <<_extract_text_tool_calls(helper.content)>>
  /\ UNCHANGED <<helper, run>>

HelperNext ==
  \/ TailMessages
  \/ NormalizeToolCalls
  \/ NormalizeAgain
  \/ ExtractTextToolCalls

HelperSpec == HelperInit /\ [][HelperNext]_vars

\* ================================================================ claims

Terminal == pc \in {"returned", "raised"}

\* every completion response so far held at least one call
AllYielded == \A k \in 1..Len(batches) : batches[k] >= 1

PreconditionsHold == inp.__request__ /\ inp.__user__ /\ inp.__model__ = "ok"

\* sub occurs in s as a run of consecutive tokens
Contains(s, sub) ==
  \E i \in 1..(Len(s) - Len(sub) + 1) : SubSeq(s, i, i + Len(sub) - 1) = sub

ErrorEvents(evs) ==
  {k \in 1..Len(evs) : evs[k].type = "chat:message:error"}

\* the exceptions of the run other than the round-limit error
OtherErrors ==
  {NoRequestError, NoUserError, NoModelError, CompletionError, ToolError,
   JSONDecodeError, TypeError, ValueError, KeyError}

\* C1 as stated, read in its favour (the preconditions hold and every call
\* is a well-formed call object): if every completion response holds a call
\* and neither a completion request nor a tool invocation raises, the run
\* ends with exactly max_rounds completion requests and the round-limit
\* error naming max_rounds.
C1_AsStated ==
  (Terminal /\ PreconditionsHold /\ AllYielded
     /\ e \notin {CompletionError, ToolError, KeyError, TypeError, ValueError})
  => /\ raised = <<RoundLimitError(max_rounds)>>
     /\ Len(requests) = max_rounds

\* C1, amended: if every completion response holds a call and no step of
\* the run raises (the preconditions hold, no completion request and no
\* tool invocation raises, every dispatched call names a function, and the
\* argument text of every call to a registered tool is blank or a JSON
\* object), the run ends with exactly max_rounds completion requests and
\* the round-limit error naming max_rounds; the round-limit error is raised
\* only after max_rounds requests that all held calls, and there is never a
\* request beyond max_rounds.
C1_RoundLimitExact ==
  /\ Len(requests) <= max_rounds
  /\ (Terminal /\ AllYielded /\ e \notin OtherErrors)
     => /\ raised = <<RoundLimitError(max_rounds)>>
        /\ returned = <<>>
        /\ Len(requests) = max_rounds
  /\ (e = RoundLimitError(max_rounds))
     => /\ Len(requests) = max_rounds
        /\ AllYielded

C1_Witness ==
  /\ pc = "raised"
  /\ raised = <<RoundLimitError(max_rounds)>>
  /\ max_rounds >= 2
  /\ Len(requests) = max_rounds
  /\ invoked # <<>>

\* C2: every run ends, with returned text or with a raised error and never
\* both, nothing is returned or raised before the end, and the number of
\* completion requests never exceeds max_rounds.
C2_Terminates ==
  /\ <>Terminal
  /\ [](Len(requests) <= max_rounds)
  /\ [](Terminal => Len(returned) + Len(raised) = 1)
  /\ [](~Terminal => returned = <<>> /\ raised = <<>>)

C2_Witness ==
  /\ pc = "returned"
  /\ max_rounds >= 2
  /\ Len(requests) = max_rounds
  /\ invoked # <<>>
  /\ raised = <<>>

\* C3: a response holding no call by either path ends the run in the same
\* step: the stripped content of that response is returned, the
\* conversation and the invocations stay as they were when the request was
\* sent, and when it is the first response the conversation is still the
\* initial one after exactly one request.
C3_NoCallsReturns ==
  [][(pc = "loop" /\ Len(requests') = Len(requests) + 1 /\ e' = NoException
        /\ StructuredCalls(resp') = <<>> /\ ParsedCalls(resp') = <<>>)
     => /\ pc' = "returned"
        /\ returned' = <<Strip(Get(resp', "content", <<>>))>>
        /\ raised' = <<>>
        /\ messages' = messages
        /\ messages' = requests'[Len(requests')].messages
        /\ invoked' = invoked
        /\ (requests = <<>> => messages' = InitialMessages(inp))]_vars

C3_Witness ==
  /\ pc = "returned"
  /\ Len(requests) = 1
  /\ resp = [content |-> <<" ", "done", " ">>]
  /\ returned = << <<"done">> >>
  /\ Len(messages) = 2

\* the dict entries of a candidate list
DictEntries(seq) == SelectSeq(seq, LAMBDA c : c.isdict)

\* the batch is the structured calls of the response, the index aside
BatchIsStructured ==
  LET given == DictEntries(Get(resp, "tool_calls", <<>>))
  IN  /\ Len(tool_calls) = Len(given)
      /\ \A k \in 1..Len(given) :
           \A key \in DOMAIN given[k].d \ {"index"} :
             /\ key \in DOMAIN tool_calls[k].d
             /\ tool_calls[k].d[key] = given[k].d[key]

\* the message the round stored for the model's turn, while its first call
\* is being dispatched
StoredTurn == messages[Len(messages)]

StructuredRound ==
  /\ ~extracted
  /\ BatchIsStructured
  /\ ContentOf(msg) = ContentOf(resp)
  /\ (pc = "dispatch" /\ tc_i = 1) => StoredTurn.content = ContentOf(resp)

\* C4 as stated: after a response whose tool_calls field is present and not
\* empty, the batch is the structured calls, the text extractor did not run
\* and the content is kept whole.
C4_AsStated == (Get(resp, "tool_calls", <<>>) # <<>>) => StructuredRound

\* C4, amended: after a response whose tool_calls field holds at least one
\* map, the batch is the structured calls, the text extractor did not run
\* and the content is kept whole, also when the content holds call markers.
C4_StructuredFirst ==
  (DictEntries(Get(resp, "tool_calls", <<>>)) # <<>>) => StructuredRound

C4_Witness ==
  /\ pc = "dispatch"
  /\ tc_i = 1
  /\ DictEntries(Get(resp, "tool_calls", <<>>)) # <<>>
  /\ FuncBlocks(ContentOf(resp)) # <<>>
  /\ FuncBlocks(StoredTurn.content) # <<>>
  /\ Len(tool_calls) = 1

\* C5: the dispatch of a call whose name is not in the registry appends one
\* tool message with the id and the name of the call and a content holding
\* the name, invokes nothing, raises nothing, and goes on with the next
\* call of the batch or, after the last one, with the next round.
C5_NotFoundRecovers ==
  [][(pc = "dispatch" /\ ~Malformed(tool_calls[tc_i])
        /\ tool_calls[tc_i].d["function"].name \notin DOMAIN tools_registry)
     => LET call == tool_calls[tc_i].d
            reply == messages'[Len(messages')]
        IN  /\ Len(messages') = Len(messages) + 1
            /\ SubSeq(messages', 1, Len(messages)) = messages
            /\ reply.role = "tool"
            /\ reply.tool_call_id = Get(call, "id", <<>>)
            /\ reply.name = call["function"].name
            /\ Contains(reply.content, call["function"].name)
            /\ invoked' = invoked
            /\ e' = NoException /\ raised' = <<>> /\ returned' = <<>>
            /\ tool_calls' = tool_calls
            /\ IF tc_i < Len(tool_calls)
               THEN pc' = "dispatch" /\ tc_i' = tc_i + 1 /\ round_num' = round_num
               ELSE pc' = "loop" /\ round_num' = round_num + 1]_vars

\* a missing tool answered, then a registered tool of the same batch
\* invoked, then the next round
C5_Witness ==
  /\ pc = "loop"
  /\ round_num = 1
  /\ Len(tool_calls) = 2
  /\ Len(invoked) = 1
  /\ Len(messages) >= 3
  /\ messages[Len(messages) - 1].role = "tool"
  /\ messages[Len(messages) - 1].content = <<"Tool '", "nope", "' not found">>
  /\ messages[Len(messages)].name = <<"calc">>

\* C6: with the request handle or the user missing, or the model descriptor
\* missing or without a non-empty id, the run goes from its start straight
\* to the handler: no completion request, no call of get_tools, no tool
\* invocation, nothing returned.
C6_PreconditionsFirst ==
  (~inp.__request__ \/ ~inp.__user__ \/ inp.__model__ \in {"none", "no id", "empty id"})
  => /\ requests = <<>>
     /\ get_tools_args = <<>>
     /\ invoked = <<>>
     /\ returned = <<>>
     /\ pc \in {"start", "except", "raised"}
     /\ (pc # "start") => e \in {NoRequestError, NoUserError, NoModelError}
     /\ (pc = "raised") => raised = <<e>>

C6_Witness ==
  /\ pc = "raised"
  /\ inp.__request__ /\ inp.__user__ /\ inp.__model__ = "empty id"
  /\ Truthy(FilterToolIds(InheritedToolIds(inp.__metadata__)))
  /\ raised = <<NoModelError>>
  /\ max_rounds >= 1

\* C7: when a completion request or a tool invocation raises, the next step
\* is the handler and the one after it the end: no request, invocation or
\* message follows, the sink (when there is one) gets exactly one error
\* event holding the exception, the same exception is raised to the caller,
\* and nothing is returned.
C7_FailureAborts ==
  [][/\ (e = NoException /\ e' \in {CompletionError, ToolError})
        => (pc' = "except" /\ returned' = <<>> /\ raised' = <<>>
            /\ messages' = messages)
     /\ (pc = "except" /\ e \in {CompletionError, ToolError})
        => /\ pc' = "raised"
           /\ raised' = <<e>>
           /\ returned' = <<>>
           /\ requests' = requests
           /\ invoked' = invoked
           /\ messages' = messages
           /\ events' = IF inp.__event_emitter__
                        THEN Append(events, ErrorEvent(e)) ELSE events
           /\ Cardinality(ErrorEvents(events')) =
                IF inp.__event_emitter__ THEN 1 ELSE 0
     /\ (pc = "raised") => UNCHANGED vars]_vars

\* a tool failed with a call of its batch still to come
C7_Witness ==
  /\ pc = "raised"
  /\ raised = <<ToolError>>
  /\ inp.__event_emitter__
  /\ tc_i < Len(tool_calls)
  /\ Len(invoked) = 1
  /\ events[Len(events)] = ErrorEvent(ToolError)

\* the call carries argument text that is not blank and does not parse
BadArguments(call) ==
  /\ call.isdict
  /\ ~Malformed(call)
  /\ Strip(Get(call.d["function"], "arguments", <<>>)) # <<>>
  /\ ~JsonLoads(Get(call.d["function"], "arguments", <<>>)).ok

\* a batch recorded in the conversation held such a call
BadArgumentsDispatched ==
  \E k \in 1..Len(messages) :
    /\ "tool_calls" \in DOMAIN messages[k]
    /\ \E j \in 1..Len(messages[k].tool_calls) :
         BadArguments(messages[k].tool_calls[j])

\* C8 as stated: once a dispatched batch holds a call whose argument text
\* is not blank and not valid JSON, the run does not return text.
C8_AsStated == BadArgumentsDispatched => returned = <<>>

\* C8, amended: when the dispatch reaches a call to a registered tool whose
\* argument text is not blank and not valid JSON, no tool message is
\* appended and nothing is invoked: the parse error goes to the handler and
\* is raised to the caller, nothing is returned, and no later call or round
\* runs; blank argument text is parsed as an empty object and the tool is
\* invoked with no argument of the call.
C8_BadArgumentsFatal ==
  [][/\ (pc = "dispatch" /\ BadArguments(tool_calls[tc_i])
           /\ tool_calls[tc_i].d["function"].name \in DOMAIN tools_registry)
        => /\ e' = JSONDecodeError
           /\ pc' = "except"
           /\ messages' = messages
           /\ invoked' = invoked
           /\ requests' = requests
     /\ (pc = "except" /\ e = JSONDecodeError)
        => /\ pc' = "raised"
           /\ raised' = <<JSONDecodeError>>
           /\ returned' = <<>>
           /\ messages' = messages
           /\ invoked' = invoked
           /\ requests' = requests
     /\ (pc = "dispatch" /\ ~Malformed(tool_calls[tc_i])
           /\ tool_calls[tc_i].d["function"].name \in DOMAIN tools_registry
           /\ Strip(Get(tool_calls[tc_i].d["function"], "arguments", <<>>)) = <<>>)
        => /\ Len(invoked') = Len(invoked) + 1
           /\ e' \in {NoException, ToolError}
           /\ \A i \in 1..Len(invoked'[Len(invoked')].kwargs) :
                invoked'[Len(invoked')].kwargs[i][2] = ContextValue]_vars

C8_Witness ==
  /\ pc = "raised"
  /\ raised = <<JSONDecodeError>>
  /\ BadArgumentsDispatched
  /\ invoked = <<>>
  /\ Len(requests) = 1
  /\ max_rounds >= 2

\* the own identifier in the letter cases of the model
OwnIdAnyCase == {<<"sub", "query">>, <<"Sub", "Query">>, <<"SUB", "QUERY">>}

Forwardable(t) == t.isstr /\ t.s \notin OwnIdAnyCase

\* what the parent session enabled
Inherited ==
  IF inp.__metadata__.isdict /\ "tool_ids" \in DOMAIN inp.__metadata__.d
  THEN inp.__metadata__.d["tool_ids"]
  ELSE NotAList

\* the list the claim expects to be passed forward (empty: none)
Expected ==
  IF Inherited.islist THEN SelectSeq(Inherited.items, Forwardable) ELSE <<>>

\* C9: the identifier list given to get_tools and sent with every
\* completion request is the inherited list without the entries that are
\* no text or equal the own identifier in any letter case, in the inherited
\* order; when that list is empty or nothing was inherited, get_tools is
\* not called, the registry is empty and the requests carry no list.
C9_OwnToolExcluded ==
  /\ \A k \in 1..Len(get_tools_args) :
       /\ get_tools_args[k] = Expected
       /\ \A i \in 1..Len(get_tools_args[k]) :
            get_tools_args[k][i].isstr /\ get_tools_args[k][i].s \notin OwnIdAnyCase
  /\ \A k \in 1..Len(requests) :
       IF Expected = <<>>
       THEN "tool_ids" \notin DOMAIN requests[k]
       ELSE /\ "tool_ids" \in DOMAIN requests[k]
            /\ requests[k].tool_ids = Expected
            /\ \A i \in 1..Len(requests[k].tool_ids) :
                 /\ requests[k].tool_ids[i].isstr
                 /\ requests[k].tool_ids[i].s \notin OwnIdAnyCase
  /\ (Expected = <<>>) => (get_tools_args = <<>> /\ DOMAIN tools_registry = {})
  /\ (Expected # <<>> /\ requests # <<>>) => Len(get_tools_args) = 1

C9_Witness ==
  /\ Len(requests) = 2
  /\ Len(get_tools_args) = 1
  /\ Str(<<"SUB", "QUERY">>) \in Range(Inherited.items)
  /\ requests[2].tool_ids = <<Str(<<"util">>), Str(<<"math">>)>>
  /\ DOMAIN tools_registry = {<<"echo">>, <<"calc">>}

\* C10 as stated: when the batch of a round came from the text extractor,
\* the content stored for the model's turn is the response content before
\* the marker of the first extracted call, without trailing whitespace, and
\* it holds the text of no extracted function block.
C10_AsStated ==
  (pc = "dispatch" /\ tc_i = 1 /\ extracted /\ tool_calls # <<>>)
  => LET content == ContentOf(resp)
         blocks == FuncBlocks(content)
     IN  /\ StoredTurn.role = "assistant"
         /\ StoredTurn.content = RStrip(SubSeq(content, 1, blocks[1].start - 1))
         /\ \A k \in 1..Len(blocks) :
              ~Contains(StoredTurn.content,
                        SubSeq(content, blocks[k].start, blocks[k].end))

\* the tag keywords of a text written in lower case, the rest as it is
LowerTag(t) ==
  CASE t = "<FUNCTION=" -> "<function=" [] t = "</FUNCTION" -> "</function"
    [] t = "<PARAMETER=" -> "<parameter=" [] t = "</PARAMETER" -> "</parameter"
    [] OTHER -> t

LowerTags(s) == [i \in 1..Len(s) |-> LowerTag(s[i])]

\* the tag keywords of a text written in upper case
UpperTag(t) ==
  CASE t = "<function=" -> "<FUNCTION=" [] t = "</function" -> "</FUNCTION"
    [] t = "<parameter=" -> "<PARAMETER=" [] t = "</parameter" -> "</PARAMETER"
    [] OTHER -> t

UpperTags(s) == [i \in 1..Len(s) |-> UpperTag(s[i])]

\* the call the claim expects for the k-th well-formed block of a content
ExpectedTextCall(content, k) ==
  LET block == FuncBlocks(content)[k]
      pairs == FindAll(block.body, ParameterOpen, ParameterCloseStem)
  IN  [index |-> IntIndex(k - 1),
       name |-> Strip(block.name),
       arguments |->
         JsonDumpsDict(DictOf([i \in 1..Len(pairs) |->
                                 <<Strip(pairs[i].name), Strip(pairs[i].body)>>]))]

\* the calls are the well-formed blocks in document order
CallsAreBlocks(content, calls) ==
  /\ Len(calls) = Len(FuncBlocks(content))
  /\ \A k \in 1..Len(calls) :
       /\ calls[k].isdict
       /\ calls[k].d.index = ExpectedTextCall(content, k).index
       /\ calls[k].d["function"].name = ExpectedTextCall(content, k).name
       /\ calls[k].d["function"].arguments = ExpectedTextCall(content, k).arguments
  /\ \A j, k \in 1..Len(calls) : calls[j].d.id = calls[k].d.id => j = k

Extracted == helper.func = "_extract_text_tool_calls" /\ out # <<>>

\* C11 as stated (its last part read in its favour: a text with no opening
\* marker yields no call): the calls extracted from a text are the calls
\* extracted from the same text with its tag keywords in lower case and in
\* upper case; they are the well-formed blocks in document order, each with
\* its position as index, an id of its own, its name and its trimmed
\* parameters as a JSON object; and a text holding no opening marker in any
\* letter case yields no call.
C11_AsStated ==
  Extracted
  => /\ out[1] = _extract_text_tool_calls(LowerTags(helper.content))
     /\ out[1] = _extract_text_tool_calls(UpperTags(helper.content))
     /\ CallsAreBlocks(helper.content, out[1])
     /\ (Range(helper.content) \cap FunctionOpen = {}) => out[1] = <<>>

Tailed == helper.func = "_tail_messages" /\ out # <<>>

\* the last n entries of a history (none for a count that is not positive)
LastN(msgs, n) ==
  IF n <= 0 THEN <<>>
  ELSE IF n >= Len(msgs) THEN msgs
  ELSE SubSeq(msgs, Len(msgs) - n + 1, Len(msgs))

\* role and content of the entries of a list whose role is system, user or
\* assistant, in the order of the list
RoleAndContent(entries) ==
  LET kept == SelectSeq(entries, TailKeeps)
  IN  [k \in 1..Len(kept) |->
         [role |-> kept[k].d["role"], content |-> Get(kept[k].d, "content", <<>>)]]

\* C12 as stated: for every history and every count n, the tail returned
\* has at most n entries (none for a count that is not positive), holds
\* only the roles system, user and assistant, is made of the entries of
\* these roles among the last n of the history in their order, and each
\* entry carries role and content and nothing else.
C12_AsStated ==
  Tailed
  => /\ Len(out[1]) <= (IF helper.n > 0 THEN helper.n ELSE 0)
     /\ \A k \in 1..Len(out[1]) :
          /\ out[1][k].role \in HistoryRoles
          /\ DOMAIN out[1][k] = {"role", "content"}
     /\ out[1] = RoleAndContent(LastN(helper.msgs, helper.n))

\* C13: _normalize_tool_calls applied to a list it returned returns that
\* list: the same entries with the same indexes in the same order.
C13_Idempotent ==
  [][(helper.func = "_normalize_tool_calls" /\ helper.times = 1)
     => (out' = out /\ helper'.times = 2)]_vars

\* normalised twice: an entry that is no dict was dropped the first time, so
\* that the entries after it changed their positions, and a text index was
\* replaced
C13_Witness ==
  /\ helper.func = "_normalize_tool_calls"
  /\ helper.times = 2
  /\ helper.tool_calls =
       <<NotADict, Dict([id |-> <<"a">>]), Dict([index |-> StrIndex(<<"1", "2">>)])>>
  /\ out = << <<Dict([id |-> <<"a">>, index |-> IntIndex(1)]),
               Dict([index |-> IntIndex(12)])>> >>

Normalized == helper.func = "_normalize_tool_calls" /\ helper.times >= 1

\* the position (counted from 0) in the list given of the k-th dict entry
PositionOf(given, k) ==
  CHOOSE i \in 0..(Len(given) - 1) :
    /\ given[i + 1].isdict
    /\ Cardinality({j \in 1..(i + 1) : given[j].isdict}) = k

\* the index the claim expects for a dict entry at position i
ExpectedIndex(entry, i) ==
  IF "index" \notin DOMAIN entry THEN IntIndex(i)
  ELSE IF entry.index.t = "str"
       THEN (IF IsDigit(entry.index.s) THEN IntIndex(IntOf(entry.index.s))
             ELSE IntIndex(i))
  ELSE IF entry.index.t # "int" THEN IntIndex(i)
  ELSE entry.index

\* C19 as stated, for the output of _normalize_tool_calls: every entry is a
\* map whose index is an integer that is not negative; the entries are the
\* maps of the list given, in order, the others dropped; an index that is
\* absent, a text that is no digit string, or of a wrong type is replaced by
\* the position of the entry, and a digit string by its value.
C19_AsStated ==
  Normalized
  => LET given == helper.tool_calls
         maps == SelectSeq(given, LAMBDA c : c.isdict)
     IN  /\ Len(out[1]) = Len(maps)
         /\ \A k \in 1..Len(out[1]) :
              /\ out[1][k].isdict
              /\ "index" \in DOMAIN out[1][k].d
              /\ out[1][k].d.index.t = "int"
              /\ out[1][k].d.index.v >= 0
              /\ (helper.times = 1) =>
                   out[1][k].d.index = ExpectedIndex(maps[k].d, PositionOf(given, k))

\* lines 241-310 for a response r: where the run stands, what is on its way
\* to the handler, the conversation and the value returned, with a sink
\* (sink = TRUE) and without one
AfterResponse(r, sink) ==
  LET calls == CallsOf(r)
  IN  IF calls = <<>>
      THEN [pc |-> "returned", e |-> e, messages |-> messages,
            returned |-> <<FinalText(Decided(r))>>]
      ELSE IF sink /\ Len(calls) >= 2 /\ \E k \in 1..Len(calls) : Malformed(calls[k])
      THEN [pc |-> "except", e |-> KeyError, messages |-> messages,
            returned |-> returned]
      ELSE [pc |-> "dispatch", e |-> e,
            messages |-> Append(messages, AssistantMessage(Decided(r), calls)),
            returned |-> returned]

\* the step in which a completion response arrives
ResponseStep ==
  pc = "loop" /\ Len(requests') = Len(requests) + 1 /\ e' # CompletionError

\* C14 as stated, step by step: the run goes on from a completion response
\* in the same way with a sink and without one: same place in the code,
\* same conversation, same value returned, same exception; and the request
\* sent does not depend on the sink.  (No other step of the run reads the
\* sink but to append to what the sink received.)
C14_AsStated ==
  [][ResponseStep
     => /\ [pc |-> pc', e |-> e', messages |-> messages', returned |-> returned']
             = AfterResponse(resp', inp.__event_emitter__)
        /\ AfterResponse(resp', TRUE) = AfterResponse(resp', FALSE)]_vars

\* the conversation ends with the assistant message of the batch followed
\* by the replies to its first k calls, one each, in the order of the batch
Answered(k) ==
  /\ Len(messages) > k
  /\ messages[Len(messages) - k].role = "assistant"
  /\ messages[Len(messages) - k].tool_calls = tool_calls
  /\ \A j \in 1..k :
       LET reply == messages[Len(messages) - k + j]
       IN  /\ reply.role = "tool"
           /\ reply.tool_call_id = CallId(tool_calls[j])
           /\ reply.name = tool_calls[j].d["function"].name

\* C15: while call number tc_i of a batch is dispatched, the calls before
\* it, and only they, have their replies in the conversation, in the order
\* of the batch; a tool is invoked only for the call the dispatch is at;
\* and a completion request of a later round is sent only when every call
\* of the batch before it has its reply.
C15_Sequential ==
  /\ [](pc = "dispatch" => Answered(tc_i - 1))
  /\ [][/\ invoked' # invoked
           => /\ pc = "dispatch"
              /\ Len(invoked') = Len(invoked) + 1
              /\ SubSeq(invoked', 1, Len(invoked)) = invoked
              /\ invoked'[Len(invoked')].name = tool_calls[tc_i].d["function"].name
              /\ invoked'[Len(invoked')].tool_call_id = CallId(tool_calls[tc_i])
        /\ (pc = "dispatch" /\ pc' = "dispatch") => tc_i' = tc_i + 1
        /\ (pc = "dispatch" /\ pc' = "loop") => tc_i = Len(tool_calls)
        /\ requests' # requests
           => /\ pc = "loop"
              /\ Len(requests') = Len(requests) + 1
              /\ (requests # <<>>) => Answered(Len(tool_calls))]_vars

\* the request of the second round was sent after the two calls the first
\* response held as text were answered in document order
C15_Witness ==
  /\ Len(requests) = 2
  /\ pc = "except"
  /\ e = CompletionError
  /\ extracted
  /\ Len(tool_calls) = 2
  /\ Len(invoked) = 1
  /\ invoked[1].name = <<"echo">>
  /\ messages[Len(messages) - 1].name = <<"echo">>
  /\ messages[Len(messages)].name = <<"nope">>
  /\ Answered(2)

\* s is a prefix of t
IsPrefix(s, t) == Len(s) <= Len(t) /\ SubSeq(t, 1, Len(s)) = s

\* C16: every step of the run leaves the conversation as it is or appends
\* to it: the messages it held stay where they are and as they are, so that
\* the conversation of every earlier step is a prefix of it and its length
\* never decreases.
C16_AppendOnly == [][IsPrefix(messages, messages')]_vars

\* the conversation grew over two rounds: the prompt, the assistant message
\* with its batch, and the replies to two calls
C16_Witness ==
  /\ pc = "returned"
  /\ Len(requests) = 2
  /\ Len(messages) = 4
  /\ messages[1] = [role |-> "user", content |-> inp.prompt]
  /\ messages[2].role = "assistant" /\ Len(messages[2].tool_calls) = 2
  /\ messages[3].role = "tool"
  /\ messages[4].role = "tool"

\* what the tools of the model hand back, as the conversation is to hold
\* it: the text as it is, the other value as JSON
StoredResults ==
  {<<" ", "ok">>,
   <<"{", Quote, "n", Quote, ":", " ", Quote, "1", Quote, "}">>}

\* cur is prev extended by one round: one assistant message with a batch
\* and one reply to each call of the batch, in the order of the batch
RoundExtends(prev, cur) ==
  /\ IsPrefix(prev, cur)
  /\ Len(cur) > Len(prev)
  /\ LET turn == cur[Len(prev) + 1]
     IN  /\ turn.role = "assistant"
         /\ DOMAIN turn = {"role", "content", "tool_calls"}
         /\ turn.tool_calls # <<>>
         /\ Len(cur) = Len(prev) + 1 + Len(turn.tool_calls)
         /\ \A j \in 1..Len(turn.tool_calls) :
              LET call == turn.tool_calls[j]
                  reply == cur[Len(prev) + 1 + j]
              IN  /\ reply.role = "tool"
                  /\ reply.tool_call_id = Get(call.d, "id", <<>>)
                  /\ reply.name = call.d["function"].name
                  /\ IF reply.name \in DOMAIN tools_registry
                     THEN reply.content \in StoredResults
                     ELSE reply.content =
                            <<"Tool '">> \o reply.name \o <<"' not found">>

\* the number of tool messages of a conversation
ToolReplies(conv) == Cardinality({k \in 1..Len(conv) : conv[k].role = "tool"})

\* the number of calls the assistant messages of a conversation record
RECURSIVE RecordedCalls(_)
RecordedCalls(conv) ==
  IF conv = <<>> THEN 0
  ELSE (IF "tool_calls" \in DOMAIN conv[1] THEN Len(conv[1].tool_calls) ELSE 0)
       + RecordedCalls(Tail(conv))

\* C17: the conversation sent with a completion request is the one sent
\* with the request before it, extended by one assistant message with the
\* content and the whole batch of the round and by one reply to each call,
\* in batch order, with the id and the name of the call and, for a tool
\* that was found, its result as text or as JSON; a round whose dispatch is
\* done has extended the conversation in this way, with the content left
\* by the call search (empty content too) and the batch of the round; and
\* in every request after the first there are as many tool messages as
\* calls recorded in assistant messages.
C17_RoundExtends ==
  /\ \A k \in 2..Len(requests) :
       /\ RoundExtends(requests[k - 1].messages, requests[k].messages)
       /\ ToolReplies(requests[k].messages) = RecordedCalls(requests[k].messages)
  /\ (pc = "loop" /\ round_num > 0)
     => /\ RoundExtends(requests[Len(requests)].messages, messages)
        /\ messages[Len(messages) - Len(tool_calls)] =
             [role |-> "assistant", content |-> Get(msg, "content", <<>>),
              tool_calls |-> tool_calls]
        /\ tool_calls = (IF StructuredCalls(resp) # <<>> THEN StructuredCalls(resp)
                         ELSE ParsedCalls(resp))

\* the second request went out after a round whose response had no content
\* and two calls: one to a tool that is not there, one to a tool that
\* returned a value that is no text
C17_Witness ==
  /\ Len(requests) = 2
  /\ Len(requests[2].messages) = 4
  /\ requests[2].messages[2].content = <<>>
  /\ Len(requests[2].messages[2].tool_calls) = 2
  /\ requests[2].messages[3].content = <<"Tool '", "nope", "' not found">>
  /\ requests[2].messages[4].content =
       <<"{", Quote, "n", Quote, ":", " ", Quote, "1", Quote, "}">>

\* the parameter map of the parent session (empty when it has none)
ParentParams ==
  IF inp.__metadata__.isdict
  THEN (IF "params" \in DOMAIN inp.__metadata__.d
           /\ inp.__metadata__.d["params"].isdict
        THEN inp.__metadata__.d["params"].d
        ELSE EmptyDict)
  ELSE EmptyDict

\* C18: the parameter map of every completion request holds
\* function_calling = "native" and, for every other key, what the parent
\* session's map holds, and nothing else; and no step changes the metadata
\* the run was given.
C18_NativeForced ==
  /\ [](\A k \in 1..Len(requests) :
          /\ DOMAIN requests[k].params = DOMAIN ParentParams \cup {"function_calling"}
          /\ requests[k].params["function_calling"] = "native"
          /\ \A key \in DOMAIN ParentParams \ {"function_calling"} :
               requests[k].params[key] = ParentParams[key])
  /\ [][inp'.__metadata__ = inp.__metadata__]_vars

\* the parent session asked for another mode, and two requests were sent
C18_Witness ==
  /\ Len(requests) = 2
  /\ ParentParams = [function_calling |-> "default", temperature |-> "0.2"]
  /\ requests[2].params = [function_calling |-> "native", temperature |-> "0.2"]
  /\ inp.__metadata__.d["params"].d["function_calling"] = "default"

\* the places of the status events with done = true
DoneEvents(evs) ==
  {k \in 1..Len(evs) : evs[k].type = "status" /\ evs[k].done}

=============================================================================
